---- MODULE Spec2Model ----
(***************************************************************************)
(* A model of the fil-proofs-bin command line tools of rust-fil-proofs:    *)
(* the interactive challenges binary, the synthetic challenges binary, the *)
(* challenge generation benchmark and the batched Groth16 proof assembler  *)
(* (snark-proof).  One tool runs at a time; `prog` names it and `pc` is    *)
(* its position in main / snark_proof.                                     *)
(***************************************************************************)
EXTENDS Integers, Sequences, FiniteSets, TLC

(***************************************************************************)
(* Bounds of the model.                                                    *)
(***************************************************************************)
MaxChallenges == 4
MaxPartitions == 3
MaxNodes == 4
MaxId == 1
MaxSnarkPartitions == 21
MaxPerPartition == 2
MaxLayers == 2
MaxHeight == 2
MaxRecords == 3

(***************************************************************************)
(* Program constants.                                                      *)
(***************************************************************************)
NODE_SIZE == 32
GROTH16_BATCH_SIZE == 10
U8_RANGE == 256
DEFAULT_SYNTH_CHALLENGE_COUNT == 262144
BENCH_CHALLENGES == 18
BENCH_K == 126
BENCH_SECTOR_NODES == 1073741824

VARIABLES
    prog,          \* the tool that runs: "none", "challenges", "synth", "bench", "snark"
    pc,            \* its position
    params,        \* the parameters parsed from stdin
    sector_nodes,  \* the local `sector_nodes`
    k,             \* the index of the next partition (challenges) or batch (snark)
    derive_calls,  \* number of derive calls made so far
    acc,           \* the collected output: challenge positions, or re-read proofs
    result,        \* how the tool ended: "", "Ok", an error or a panic
    printed,       \* whether the output was printed (challenges) / written (snark)
    output,        \* the output printed or written
    circuits,      \* snark_proof: the `circuits` vector
    prove_calls,   \* snark_proof: the batches submitted to the prover, in order
    inflight,      \* snark_proof: indices of the batches being proved
    failed,        \* snark_proof: indices of the batches whose proving call failed
    file,          \* the contents of the proofs file the tool reads
    reads,         \* the positions of `file` that were read
    written,       \* the records the last writer serialized, partition by partition
    partition_indexes, \* challenges: the partition-index arguments of the derive calls
    porep_minimum, \* default-values: the local `num_porep_minimum_challenges`
    tracker_counter, \* StdoutTracker.counter
    total,         \* StdoutTracker.total
    prev_printed,  \* StdoutTracker.prev_printed
    live,          \* the wrapped sizes of the tracked objects that are allocated
    tpc,           \* per thread: its position in allocated()
    tlocal,        \* per thread: the locals of its call of allocated()
    checks,        \* the memory-change checks that ran, in order
    skipped,       \* the counter values a thread reached and did not check
    events,        \* the number of allocation events so far
    subtractions,  \* the unsigned subtractions evaluated so far
    tracker_result, \* "", or the panic that ended the process
    circuit_a,     \* FpXorCircuit.a
    circuit_b,     \* FpXorCircuit.b
    pub_inputs,    \* the instance column: the public input
    xor_rows,      \* the advice cells of the rows of the xor gate
    verdict        \* what MockProver::verify returned: "", "Ok" or "Err"

trackerVars == <<tracker_counter, total, prev_printed, live, tpc, tlocal, checks, skipped,
                 events, subtractions, tracker_result>>

xorVars == <<circuit_a, circuit_b, pub_inputs, xor_rows, verdict>>

sideVars == <<trackerVars, xorVars>>

vars == <<prog, pc, params, sector_nodes, k, derive_calls, acc, result, printed,
          output, circuits, prove_calls, inflight, failed, file, reads, written,
          partition_indexes, porep_minimum, sideVars>>

NoParams ==
    [num_challenges |-> 0, num_partitions |-> 0, sector_size |-> 0,
     replica_id |-> 0, seed |-> 0, comm_r |-> 0,
     num_challenges_per_partition |-> 0, num_layers |-> 0, scheme |-> "none"]

(***************************************************************************)
(* Helpers on sequences.                                                   *)
(***************************************************************************)
RECURSIVE Flatten(_)
Flatten(ss) == IF ss = <<>> THEN <<>> ELSE Head(ss) \o Flatten(Tail(ss))

Min(a, b) == IF a <= b THEN a ELSE b

CeilDiv(a, b) == (a + b - 1) \div b

(***************************************************************************)
(* The Challenge Deriver.  Its code (storage-proofs-porep, stacked/vanilla/*)
(* challenges.rs) is not among the source files; it is modelled from the   *)
(* specification, section 4.1: candidate index =                           *)
(*   hash(domain_tag, replica_id, commitments, seed, partition, counter)   *)
(*     mod sector_nodes,                                                   *)
(* for counter = 0, 1, ... until the target count is reached, and the      *)
(* derivation fails with InsufficientNodeSpace unless sector_nodes exceeds *)
(* the number of challenges requested.                                     *)
(***************************************************************************)
SchemeTag(scheme) ==
    CASE scheme = "interactive" -> 1
      [] scheme = "ni-sha256"   -> 2
      [] scheme = "ni-chacha20" -> 3
      [] scheme = "synthetic"   -> 4
      [] OTHER                  -> 5

\* The keyed pseudorandom function of the hashing collaborator: a fixed
\* function of all of its inputs.
Hash(tag, replica_id, aux, seed, partition_index, counter) ==
    ((tag * 1009 + replica_id * 131 + aux * 137 + seed * 139
        + partition_index * 151 + counter * 157 + 11) * 7919) % 104729

DeriveOk(val) == [ok |-> TRUE, val |-> val]
DeriveErr == [ok |-> FALSE, val |-> <<>>]

Derive(scheme, nodes, replica_id, aux, seed, partition_index, count) ==
    IF nodes <= count
    THEN DeriveErr
    ELSE DeriveOk([i \in 1..count |->
            Hash(SchemeTag(scheme), replica_id, aux, seed, partition_index, i - 1)
                % nodes])

\* The synthetic superset: min(sector_nodes, default_count) indices, from
\* (replica_id, comm_r) only.
SynthSuperset(nodes, replica_id, comm_r) ==
    [i \in 1..Min(nodes, DEFAULT_SYNTH_CHALLENGE_COUNT) |->
        Hash(SchemeTag("synthetic"), replica_id, comm_r, 0, 0, i - 1) % nodes]

\* SynthChallenges::gen_porep_challenges: the seed selects positions of the
\* superset; the challenges are the superset's entries at those positions.
GenPorepChallenges(nodes, replica_id, comm_r, count, seed) ==
    IF nodes <= count
    THEN DeriveErr
    ELSE LET superset == SynthSuperset(nodes, replica_id, comm_r)
         IN  DeriveOk([j \in 1..count |->
                superset[(Hash(SchemeTag("synthetic-seed"), replica_id, comm_r,
                               seed, 0, j - 1) % Len(superset)) + 1]])

(***************************************************************************)
(* The Synthetic Proof Store (SynthProofs).  Its code                      *)
(* (storage-proofs-porep, stacked/vanilla/proof.rs) is not among the       *)
(* source files; it is modelled from the specification, section 4.2.  A    *)
(* record is the opening of one challenged node in each of the             *)
(* num_layers + 1 trees of the replica: the leaf and the sibling of each   *)
(* of its ancestors up to the root.  All records of one (sector_nodes,     *)
(* num_layers) have one size; a file is records laid end to end, with no   *)
(* header, index or delimiter, one word per tree node referenced.          *)
(***************************************************************************)
RECURSIVE PathLen(_)
\* The height of the tree over `nodes` leaves: the siblings on a path.
PathLen(nodes) == IF nodes <= 1 THEN 0 ELSE 1 + PathLen(nodes \div 2)

Sibling(index) == IF index % 2 = 0 THEN index + 1 ELSE index - 1

\* The tree node referenced by slot `slot` (from 0) of the path of leaf
\* `challenge` in tree `tree`: slot 0 is the leaf, slot s > 0 the sibling
\* of the path's node in row s - 1.
PathNode(tree, challenge, slot) ==
    IF slot = 0
    THEN [tree |-> tree, row |-> 0, index |-> challenge]
    ELSE [tree |-> tree, row |-> slot - 1,
          index |-> Sibling(challenge \div (2 ^ (slot - 1)))]

\* The record of one challenge: the paths in trees 1 .. num_layers + 1.
ProofRecord(nodes, num_layers, challenge) ==
    LET slots == PathLen(nodes) + 1
    IN  [s \in 1..((num_layers + 1) * slots) |->
            PathNode(((s - 1) \div slots) + 1, challenge, (s - 1) % slots)]

\* Mutant of ProofSize: the path to the root is not counted.
ProofSizeMutantLeavesOnly(nodes, num_layers) == num_layers + 1

\* SynthProofs::proof_size: the size of one record, in words.
ProofSize(nodes, num_layers) == (num_layers + 1) * (PathLen(nodes) + 1)

\* One tree node reference as a word, and back.
EncodeNode(node) == (node.index * 8 + node.row) * 8 + node.tree
DecodeNode(word) ==
    [tree |-> word % 8, row |-> (word \div 8) % 8, index |-> word \div 64]

EncodeRecord(record) == [s \in 1..Len(record) |-> EncodeNode(record[s])]

\* SynthProofs::write: the encodings of the records, appended in order.
SynthProofsWrite(records) ==
    Flatten([i \in 1..Len(records) |-> EncodeRecord(records[i])])

\* The words of one record slot decode to a record of the shape given by
\* (nodes, num_layers), or not at all.
DecodeRecord(words, nodes, num_layers) ==
    LET slots == PathLen(nodes) + 1
        record == [s \in 1..Len(words) |-> DecodeNode(words[s])]
        WellFormed(s) ==
            /\ record[s].tree = ((s - 1) \div slots) + 1
            /\ record[s].row = (IF (s - 1) % slots = 0 THEN 0 ELSE ((s - 1) % slots) - 1)
            /\ record[s].index < nodes
    IN  IF /\ Len(words) = ProofSize(nodes, num_layers)
           /\ \A s \in 1..Len(words) : WellFormed(s)
        THEN [ok |-> TRUE, val |-> record]
        ELSE [ok |-> FALSE, val |-> <<>>]

\* Mutant of Range: the range a..=b, one position more.
RangeMutantInclusive(a, b) == [i \in 1..(IF b >= a THEN b - a + 1 ELSE 0) |-> a + i - 1]

\* The range a..b-1 as an ordered list of positions.
Range(a, b) == [i \in 1..(IF b > a THEN b - a ELSE 0) |-> a + i - 1]

\* Mutant of SynthProofsRead: a position beyond the end of the file ends
\* the read, and the records before it are returned.
SynthProofsReadMutantShortens(bytes, nodes, num_layers, positions) ==
    LET size == ProofSize(nodes, num_layers)
        Inside(i) == positions[i] * size + size <= Len(bytes)
        got == IF \A i \in 1..Len(positions) : Inside(i)
               THEN Len(positions)
               ELSE (CHOOSE i \in 1..Len(positions) :
                        ~Inside(i) /\ \A j \in 1..(i - 1) : Inside(j)) - 1
    IN  [ok |-> TRUE, err |-> "", touched |-> {positions[i] : i \in 1..got},
         val |-> [i \in 1..got |->
                    DecodeRecord(SubSeq(bytes, positions[i] * size + 1,
                                        positions[i] * size + size),
                                 nodes, num_layers).val]]

\* SynthProofs::read: for each requested position p, in request order
\* (positions may repeat or decrease), seek to p * size, read size words
\* and decode them.  A position beyond the end of the file fails the whole
\* request with TruncatedStore, undecodable words with DecodeError.
SynthProofsRead(bytes, nodes, num_layers, positions) ==
    LET size == ProofSize(nodes, num_layers)
        Words(i) == SubSeq(bytes, positions[i] * size + 1, positions[i] * size + size)
        Truncated(i) == positions[i] * size + size > Len(bytes)
        Bad(i) == Truncated(i) \/ ~DecodeRecord(Words(i), nodes, num_layers).ok
    IN  IF \E i \in 1..Len(positions) : Bad(i)
        THEN LET first == CHOOSE i \in 1..Len(positions) :
                              Bad(i) /\ \A j \in 1..(i - 1) : ~Bad(j)
             IN  [ok |-> FALSE,
                  err |-> IF Truncated(first) THEN "TruncatedStore" ELSE "DecodeError",
                  touched |-> {positions[j] : j \in 1..(first - 1)},
                  val |-> <<>>]
        ELSE [ok |-> TRUE, err |-> "",
              touched |-> {positions[i] : i \in 1..Len(positions)},
              val |-> [i \in 1..Len(positions) |->
                         DecodeRecord(Words(i), nodes, num_layers).val]]

\* SynthProofs::unique_nodes: the tree nodes referenced by the records,
\* counted with and without repetition.
RECURSIVE SumLen(_)
SumLen(records) ==
    IF records = <<>> THEN 0 ELSE Len(Head(records)) + SumLen(Tail(records))

NodesOf(record) == {record[s] : s \in 1..Len(record)}

\* Mutant of UniqueNodes: the same node of two different trees is counted
\* once.
UniqueNodesMutantAcrossTrees(records) ==
    <<SumLen(records),
      Cardinality(UNION {{<<n.row, n.index>> : n \in NodesOf(records[i])} :
                            i \in 1..Len(records)})>>

\* The pair (total, unique).
UniqueNodes(records) ==
    <<SumLen(records),
      Cardinality(UNION {NodesOf(records[i]) : i \in 1..Len(records)})>>

\* with_shape!: the tree shape of a sector size; sector sizes without a
\* shape are rejected.  The shapes are those of the power-of-two sizes.
WithShape(sector_size) ==
    \E h \in 1..MaxHeight : sector_size = NODE_SIZE * (2 ^ h)

(***************************************************************************)
(* Shared pieces of the binaries.                                          *)
(***************************************************************************)
\* Mutant of SectorNodes: the division by NODE_SIZE is forgotten.
SectorNodesMutantNoDivision(sector_size) == sector_size

\* `sector_size / NODE_SIZE`: integer division.
SectorNodes(sector_size) == sector_size \div NODE_SIZE

\* `k as u8`.
AsU8(n) == n % U8_RANGE

ChallengeCounts == (0..MaxChallenges) \cup {U8_RANGE, U8_RANGE + 1}
PartitionCounts == (0..MaxPartitions) \cup {U8_RANGE, U8_RANGE + 1}
SectorSizes == {n * NODE_SIZE + r : n \in 0..MaxNodes, r \in {0, 1}}
Ids == 0..MaxId
Layers == 1..MaxLayers

\* Bound: the threads that allocate.
MaxThreads == 2

Threads == 1..MaxThreads

\* The locals of a thread that is not inside allocated().
NoLocals == [wrapped_size |-> 0, reached |-> 0, total |-> 0, prev_printed |-> 0]

\* StdoutTracker::new (snark-proof.rs lines 45-53): every field is zero; no
\* tracked object exists and no thread is inside the tracker.
TrackerNew ==
    /\ tracker_counter = 0
    /\ total = 0
    /\ prev_printed = 0
    /\ live = <<>>
    /\ tpc = [t \in Threads |-> "idle"]
    /\ tlocal = [t \in Threads |-> NoLocals]
    /\ checks = <<>>
    /\ skipped = {}
    /\ events = 0
    /\ subtractions = {}
    /\ tracker_result = ""

\* No circuit was built.
NoCircuit ==
    /\ circuit_a = 0
    /\ circuit_b = 0
    /\ pub_inputs = <<>>
    /\ xor_rows = <<>>
    /\ verdict = ""

\* No tool runs yet.
NoTool ==
    /\ prog = "none"
    /\ pc = "start"
    /\ params = NoParams
    /\ sector_nodes = 0
    /\ k = 0
    /\ derive_calls = 0
    /\ acc = <<>>
    /\ result = ""
    /\ printed = FALSE
    /\ output = <<>>
    /\ circuits = <<>>
    /\ prove_calls = <<>>
    /\ inflight = {}
    /\ failed = {}
    /\ file = <<>>
    /\ reads = {}
    /\ written = <<>>
    /\ partition_indexes = <<>>
    /\ porep_minimum = 0

Init == NoTool /\ TrackerNew /\ NoCircuit

snarkVars == <<circuits, prove_calls, inflight, failed>>

storeVars == <<file, reads, written>>

\* The tool ends: with Ok after its output, or with an error or a panic.
End(how) ==
    /\ pc' = "done"
    /\ result' = how

(***************************************************************************)
(* challenges.rs: main.                                                    *)
(***************************************************************************)
\* cli::parse_stdin (line 32).
ChallengesParse ==
    /\ prog = "none"
    /\ \E nc \in ChallengeCounts, np \in PartitionCounts, ss \in SectorSizes,
          rid \in Ids, sd \in Ids :
          params' = [NoParams EXCEPT !.num_challenges = nc, !.num_partitions = np,
                                     !.sector_size = ss, !.replica_id = rid,
                                     !.seed = sd, !.scheme = "interactive"]
    /\ prog' = "challenges"
    /\ pc' = "assert"
    /\ UNCHANGED <<sector_nodes, k, derive_calls, acc, result, printed, output,
                   snarkVars>>
    /\ UNCHANGED storeVars
    /\ UNCHANGED <<partition_indexes, porep_minimum, sideVars>>

\* Mutant of ChallengesDivisible: the assertion is missing.
ChallengesDivisibleMutantUnchecked(nc, np) == TRUE

\* The condition of the assert_eq! (lines 35-39).
ChallengesDivisible(nc, np) == nc % np = 0

\* Lines 35-44: the divisibility assertion, then the per-partition count
\* and sector_nodes.
ChallengesAssert ==
    /\ prog = "challenges"
    /\ pc = "assert"
    /\ IF params.num_partitions = 0
       THEN /\ End("panic: remainder with a divisor of zero")
            /\ UNCHANGED <<sector_nodes>>
       ELSE IF ~ChallengesDivisible(params.num_challenges, params.num_partitions)
       THEN /\ End("panic: Number of challenges must be divisible by the number of partitions")
            /\ UNCHANGED <<sector_nodes>>
       ELSE /\ sector_nodes' = SectorNodes(params.sector_size)
            /\ pc' = "derive"
            /\ UNCHANGED <<result>>
    /\ UNCHANGED <<prog, params, k, derive_calls, acc, printed, output, snarkVars>>
    /\ UNCHANGED storeVars
    /\ UNCHANGED <<partition_indexes, porep_minimum, sideVars>>

\* Mutant of ChallengesPerPartition: `%` written for `/`.
ChallengesPerPartitionMutantRemainder(nc, np) == nc % np

\* The `num_challenges` handed to InteractivePoRep::new (line 40).
ChallengesPerPartition(nc, np) == nc \div np

\* One element of (0..num_partitions).flat_map(|k| derive(.., k as u8))
\* (lines 46-55).  A failing derive can only panic: its result is iterated
\* as a list of positions.
ChallengesDerive ==
    /\ prog = "challenges"
    /\ pc = "derive"
    /\ k < params.num_partitions
    /\ derive_calls' = derive_calls + 1
    /\ LET r == Derive("interactive", sector_nodes, params.replica_id, 0, params.seed,
                       AsU8(k),
                       ChallengesPerPartition(params.num_challenges,
                                              params.num_partitions))
       IN  IF r.ok
           THEN /\ acc' = acc \o r.val
                /\ k' = k + 1
                /\ UNCHANGED <<pc, result>>
           ELSE /\ End("panic: InsufficientNodeSpace")
                /\ UNCHANGED <<acc, k>>
    /\ UNCHANGED <<prog, params, sector_nodes, printed, output, snarkVars>>
    /\ UNCHANGED storeVars
    /\ partition_indexes' = Append(partition_indexes, AsU8(k))
    /\ UNCHANGED <<porep_minimum, sideVars>>

\* Lines 57-63: the output is printed.
ChallengesPrint ==
    /\ prog = "challenges"
    /\ pc = "derive"
    /\ k = params.num_partitions
    /\ printed' = TRUE
    /\ output' = acc
    /\ End("Ok")
    /\ UNCHANGED <<prog, params, sector_nodes, k, derive_calls, acc, snarkVars>>
    /\ UNCHANGED storeVars
    /\ UNCHANGED <<partition_indexes, porep_minimum, sideVars>>

(***************************************************************************)
(* challenges-synth.rs: main.                                              *)
(***************************************************************************)
\* cli::parse_stdin (line 33).
SynthParse ==
    /\ prog = "none"
    /\ \E nc \in 0..MaxChallenges, ss \in SectorSizes, rid \in Ids, cr \in Ids,
          sd \in Ids :
          params' = [NoParams EXCEPT !.num_challenges = nc, !.sector_size = ss,
                                     !.replica_id = rid, !.comm_r = cr, !.seed = sd,
                                     !.scheme = "synthetic"]
    /\ prog' = "synth"
    /\ pc' = "derive"
    /\ UNCHANGED <<sector_nodes, k, derive_calls, acc, result, printed, output,
                   snarkVars>>
    /\ UNCHANGED storeVars
    /\ UNCHANGED <<partition_indexes, porep_minimum, sideVars>>

\* Lines 36-47: sector_nodes, the synthetic challenges of the seed, and
\* the output.
SynthDerive ==
    /\ prog = "synth"
    /\ pc = "derive"
    /\ sector_nodes' = SectorNodes(params.sector_size)
    /\ derive_calls' = derive_calls + 1
    /\ LET r == GenPorepChallenges(sector_nodes', params.replica_id, params.comm_r,
                                   params.num_challenges, params.seed)
       IN  IF r.ok
           THEN /\ acc' = r.val
                /\ output' = r.val
                /\ printed' = TRUE
                /\ End("Ok")
           ELSE /\ End("panic: InsufficientNodeSpace")
                /\ UNCHANGED <<acc, output, printed>>
    /\ UNCHANGED <<prog, params, k, snarkVars>>
    /\ UNCHANGED storeVars
    /\ UNCHANGED <<partition_indexes, porep_minimum, sideVars>>

(***************************************************************************)
(* benches/challenges_gen.rs: one iteration of a benchmark.                *)
(***************************************************************************)
BenchIter ==
    /\ prog \in {"none", "bench"}
    /\ \E scheme \in {"ni-sha256", "ni-chacha20"} :
          /\ params' = [NoParams EXCEPT !.scheme = scheme, !.replica_id = 1,
                                        !.comm_r = 2,
                                        !.num_challenges = BENCH_CHALLENGES]
          /\ acc' = Derive(scheme, BENCH_SECTOR_NODES, 1, 2, 0, BENCH_K,
                           BENCH_CHALLENGES).val
    /\ prog' = "bench"
    /\ sector_nodes' = BENCH_SECTOR_NODES
    /\ derive_calls' = 1
    /\ UNCHANGED <<pc, k, result, printed, output, snarkVars>>
    /\ UNCHANGED storeVars
    /\ UNCHANGED <<partition_indexes, porep_minimum, sideVars>>

(***************************************************************************)
(* default-values.rs: next_multiple_of and main.                           *)
(***************************************************************************)
\* Mutant of NextMultipleOf: a base that is already a multiple is moved to
\* the multiple after it.
NextMultipleOfMutantAlwaysUp(base, multiple) ==
    base + (multiple - (base % multiple))

\* Lines 27-32, for multiple > 0.
NextMultipleOf(base, multiple) ==
    IF base % multiple = 0
    THEN base
    ELSE base + (multiple - (base % multiple))

\* Mutant of SynthPorepChallenges: the count is not capped by the sector.
SynthPorepChallengesMutantUncapped(nodes) == DEFAULT_SYNTH_CHALLENGE_COUNT

\* Line 60: `cmp::min(sector_nodes, DEFAULT_SYNTH_CHALLENGE_COUNT)`.
SynthPorepChallenges(nodes) == Min(nodes, DEFAULT_SYNTH_CHALLENGE_COUNT)

\* The sector sizes asked about: small ones, and those around the one with
\* DEFAULT_SYNTH_CHALLENGE_COUNT nodes.
DefaultSectorSizes ==
    SectorSizes
      \cup {NODE_SIZE * DEFAULT_SYNTH_CHALLENGE_COUNT + d : d \in {0 - 1, 0, NODE_SIZE}}
      \cup {NODE_SIZE * DEFAULT_SYNTH_CHALLENGE_COUNT * 2}

\* cli::parse_stdin (line 37).
DefaultParse ==
    /\ prog = "none"
    /\ \E size \in DefaultSectorSizes :
          params' = [NoParams EXCEPT !.sector_size = size, !.scheme = "default"]
    /\ prog' = "default"
    /\ pc' = "lookup"
    /\ UNCHANGED <<sector_nodes, k, derive_calls, acc, result, printed, output,
                   snarkVars, storeVars>>
    /\ UNCHANGED <<partition_indexes, porep_minimum, sideVars>>

\* Lines 40-70: the sector size is looked up in the tables LAYERS,
\* POREP_PARTITIONS, WINDOW_POST_SECTOR_COUNT and POREP_MINIMUM_CHALLENGES
\* (whatever they hold for it; a size they do not know ends the tool), the
\* challenge counts are computed and the output is printed.
DefaultValues ==
    /\ prog = "default"
    /\ pc = "lookup"
    /\ \E known \in BOOLEAN, num_layers \in Layers, num_porep_partitions \in 1..MaxPartitions,
          num_window_post_sectors \in 1..MaxPartitions,
          num_porep_minimum_challenges \in 0..MaxChallenges :
          IF ~known
          THEN /\ End("panic: unknown sector size")
               /\ UNCHANGED <<sector_nodes, output, printed, porep_minimum>>
          ELSE /\ porep_minimum' = num_porep_minimum_challenges
               /\ sector_nodes' = SectorNodes(params.sector_size)
               /\ output' = <<[num_layers |-> num_layers,
                               num_porep_challenges |->
                                   NextMultipleOf(num_porep_minimum_challenges,
                                                  num_porep_partitions),
                               num_porep_partitions |-> num_porep_partitions,
                               num_synth_porep_challenges |->
                                   SynthPorepChallenges(sector_nodes'),
                               num_window_post_sectors |-> num_window_post_sectors]>>
               /\ printed' = TRUE
               /\ End("Ok")
    /\ UNCHANGED <<prog, params, k, derive_calls, acc, snarkVars, storeVars>>
    /\ UNCHANGED <<partition_indexes, sideVars>>

(***************************************************************************)
(* Files between the tools.  A reader finds the file a writer left: whole, *)
(* cut short, or damaged.                                                  *)
(***************************************************************************)
StoreSectorSizes ==
    {NODE_SIZE * (2 ^ h) : h \in 1..MaxHeight} \cup {NODE_SIZE * ((2 ^ MaxHeight) + 1)}

FilesAsFound(bytes) ==
    {bytes}
      \cup (IF bytes = <<>> THEN {}
            ELSE {SubSeq(bytes, 1, Len(bytes) - 1), [bytes EXCEPT ![1] = 0]})

\* Mutant of FileOpen: the file is opened for writing and truncated.
FileOpenMutantCreate(bytes) == <<>>

\* File::open: a read-only handle; the file keeps its contents.
FileOpen(bytes) == bytes

\* The records of the given challenges.
RecordsOf(nodes, num_layers, challenges) ==
    [i \in 1..Len(challenges) |-> ProofRecord(nodes, num_layers, challenges[i])]

(***************************************************************************)
(* merkle-proofs-synth-generate.rs: merkle_proofs and main.                *)
(***************************************************************************)
\* Mutant of GenerateSeed: a seed takes part in the generation.
GenerateSeedMutantSome(p) == p.seed + 1

\* Line 141, `seed: None`: no seed takes part in the generation; the
\* deriver's seed input is the absent seed whatever the parameters are.
GenerateSeed(p) == 0

\* prove_all_partitions without a seed: the proofs of the whole synthetic
\* superset, over (replica_id, tau.comm_r) and the seed input above.
SynthRecords(nodes, num_layers, replica_id, comm_r, seed) ==
    RecordsOf(nodes, num_layers,
        [i \in 1..Min(nodes, DEFAULT_SYNTH_CHALLENGE_COUNT) |->
            Hash(SchemeTag("synthetic"), replica_id, comm_r, seed, 0, i - 1) % nodes])

\* cli::parse_stdin (line 171).
GenerateParse ==
    /\ prog = "none"
    /\ \E size \in StoreSectorSizes, layers \in Layers, rid \in Ids :
          params' = [NoParams EXCEPT !.sector_size = size,
                                     !.num_layers = layers,
                                     !.replica_id = rid,
                                     !.scheme = "synthetic"]
    /\ prog' = "generate"
    /\ pc' = "prove"
    /\ UNCHANGED <<sector_nodes, k, derive_calls, acc, result, printed, output,
                   snarkVars, storeVars>>
    /\ UNCHANGED <<partition_indexes, porep_minimum, sideVars>>

\* Lines 174-193 and 114-167: with_shape!, the trees are restored, all
\* synthetic proofs are generated and written to the store file, and the
\* output is printed.  tau.comm_r is [1u8; 32] (line 133).
GenerateProve ==
    /\ prog = "generate"
    /\ pc = "prove"
    /\ IF ~WithShape(params.sector_size)
       THEN /\ End("panic: unsupported sector size")
            /\ UNCHANGED <<sector_nodes, derive_calls, printed, output, written>>
       ELSE \E restored \in BOOLEAN :
            IF ~restored
            THEN /\ End("Err: failed to restore contents of t_aux")
                 /\ UNCHANGED <<sector_nodes, derive_calls, printed, output, written>>
            ELSE LET nodes == SectorNodes(params.sector_size)
                     records == SynthRecords(nodes, params.num_layers, params.replica_id,
                                             1, GenerateSeed(params))
                 IN  /\ sector_nodes' = nodes
                     /\ derive_calls' = 1
                     /\ written' = <<records>>
                     /\ output' = SynthProofsWrite(records)
                     /\ printed' = TRUE
                     /\ End("Ok")
    /\ UNCHANGED <<prog, params, k, acc, snarkVars, file, reads>>
    /\ UNCHANGED <<partition_indexes, porep_minimum, sideVars>>

(***************************************************************************)
(* merkle-proofs-synth-extract.rs: merkle_proofs and main.                 *)
(***************************************************************************)
\* derive_synth_indexes (storage-proofs-porep), modelled from the
\* specification, section 4.3: the actual challenges are derived from the
\* real seed, and each is located in the synthetic superset.
DeriveSynthIndexes(nodes, replica_id, comm_r, seed, count) ==
    LET actual == Derive("interactive", nodes, replica_id, comm_r, seed, 0, count)
        superset == SynthSuperset(nodes, replica_id, comm_r)
        Ranks(c) == {j \in 1..Len(superset) : superset[j] = c}
        Rank(c) == (CHOOSE j \in Ranks(c) : \A j2 \in Ranks(c) : j <= j2) - 1
    IN  IF ~actual.ok
        THEN [ok |-> FALSE, err |-> "InsufficientNodeSpace", val |-> <<>>]
        ELSE IF \E i \in 1..count : Ranks(actual.val[i]) = {}
        THEN [ok |-> FALSE, err |-> "ChallengeNotInSuperset", val |-> <<>>]
        ELSE [ok |-> TRUE, err |-> "", val |-> [i \in 1..count |-> Rank(actual.val[i])]]

\* cli::parse_stdin (line 87).  The store is the file a finished
\* generation left.
ExtractParse ==
    /\ prog = "generate"
    /\ pc = "done"
    /\ result = "Ok"
    /\ \E n \in 0..MaxChallenges, comm_r \in Ids, seed \in Ids, found \in FilesAsFound(output) :
          /\ params' = [params EXCEPT !.num_challenges = n,
                                      !.comm_r = comm_r,
                                      !.seed = seed,
                                      !.scheme = "extract"]
          /\ file' = found
    /\ prog' = "extract"
    /\ pc' = "derive"
    /\ result' = ""
    /\ printed' = FALSE
    /\ output' = <<>>
    /\ derive_calls' = 0
    /\ UNCHANGED <<sector_nodes, k, acc, snarkVars, reads, written>>
    /\ UNCHANGED <<partition_indexes, porep_minimum, sideVars>>

\* Mutant of ExtractDeriveFailed: a challenge that is not in the superset
\* is skipped.
ExtractDeriveFailedMutantSkips(err) ==
    /\ acc' = <<>>
    /\ pc' = "read"
    /\ UNCHANGED result

\* derive_synth_indexes returns the indexes themselves (lines 50-57):
\* a failure inside it ends the tool.
ExtractDeriveFailed(err) ==
    /\ End("panic: " \o err)
    /\ UNCHANGED acc

\* Lines 90-100 and 47-57: with_shape!, then the synthetic indexes of the
\* challenges of the seed, for one partition.
ExtractDerive ==
    /\ prog = "extract"
    /\ pc = "derive"
    /\ IF ~WithShape(params.sector_size)
       THEN /\ End("panic: unsupported sector size")
            /\ UNCHANGED <<sector_nodes, derive_calls, acc>>
       ELSE LET nodes == SectorNodes(params.sector_size)
                synth_indexes == DeriveSynthIndexes(nodes, params.replica_id, params.comm_r,
                                                    params.seed, params.num_challenges)
            IN  /\ sector_nodes' = nodes
                /\ derive_calls' = derive_calls + 1
                /\ IF synth_indexes.ok
                   THEN /\ acc' = synth_indexes.val
                        /\ pc' = "read"
                        /\ UNCHANGED result
                   ELSE ExtractDeriveFailed(synth_indexes.err)
    /\ UNCHANGED <<prog, params, k, printed, output, snarkVars, storeVars>>
    /\ UNCHANGED <<partition_indexes, porep_minimum, sideVars>>

Reverse(seq) == [i \in 1..Len(seq) |-> seq[Len(seq) + 1 - i]]

\* Lines 59-82 and 103-108: the store is opened, the records at the given
\* positions are read and written out again, the bundle goes to the output
\* file and the output is printed.
ExtractReadAt(positions) ==
    /\ prog = "extract"
    /\ pc = "read"
    /\ file' = FileOpen(file)
    /\ LET proofs == SynthProofsRead(file', sector_nodes, params.num_layers, positions)
       IN  /\ reads' = proofs.touched
           /\ IF proofs.ok
              THEN /\ written' = <<proofs.val>>
                   /\ output' = SynthProofsWrite(proofs.val)
                   /\ printed' = TRUE
                   /\ End("Ok")
              ELSE /\ End("Err: failed to read synthetic proofs: " \o proofs.err)
                   /\ UNCHANGED <<output, printed, written>>
    /\ UNCHANGED <<prog, params, sector_nodes, k, derive_calls, acc, snarkVars>>
    /\ UNCHANGED <<partition_indexes, porep_minimum, sideVars>>

\* Mutant of ExtractRead: only the positions that lie inside the file are
\* asked for.
ExtractReadMutantInsideOnly ==
    ExtractReadAt(SelectSeq(acc,
        LAMBDA p : (p + 1) * ProofSize(sector_nodes, params.num_layers) <= Len(file)))

\* Mutant of ExtractRead: the positions are read from the last to the
\* first.
ExtractReadMutantReversed == ExtractReadAt(Reverse(acc))

\* Lines 66-77: `synth_indexes.into_iter()` is what is read.
ExtractRead == ExtractReadAt(acc)

(***************************************************************************)
(* merkle-proofs-synth-count.rs: unique_nodes, proof_size and main.        *)
(***************************************************************************)
\* Mutant of CountOutput: the two counts change places.
CountOutputMutantSwapped(counts, size) ==
    [num_challenges |-> DEFAULT_SYNTH_CHALLENGE_COUNT,
     num_total_nodes |-> counts[2],
     num_unique_nodes |-> counts[1],
     single_proof_size |-> size]

\* Lines 67-87: the pair unique_nodes returned is (num_total_nodes,
\* num_unique_nodes); num_challenges is DEFAULT_SYNTH_CHALLENGE_COUNT.
CountOutput(counts, size) ==
    [num_challenges |-> DEFAULT_SYNTH_CHALLENGE_COUNT,
     num_total_nodes |-> counts[1],
     num_unique_nodes |-> counts[2],
     single_proof_size |-> size]

\* cli::parse_stdin (line 64).  The store is the file a finished
\* generation left.
CountParse ==
    /\ prog = "generate"
    /\ pc = "done"
    /\ result = "Ok"
    /\ \E found \in FilesAsFound(output) : file' = found
    /\ params' = [params EXCEPT !.scheme = "count"]
    /\ prog' = "count"
    /\ pc' = "read"
    /\ result' = ""
    /\ printed' = FALSE
    /\ output' = <<>>
    /\ UNCHANGED <<sector_nodes, k, derive_calls, acc, snarkVars, reads, written>>
    /\ UNCHANGED <<partition_indexes, porep_minimum, sideVars>>

\* Lines 67-89 and 36-59: with_shape!, the first DEFAULT_SYNTH_CHALLENGE_COUNT
\* records are read and their nodes counted; then the record size; then the
\* output is printed.
CountRun ==
    /\ prog = "count"
    /\ pc = "read"
    /\ IF ~WithShape(params.sector_size)
       THEN /\ End("panic: unsupported sector size")
            /\ UNCHANGED <<file, reads, output, printed>>
       ELSE /\ file' = FileOpen(file)
            /\ LET nodes == SectorNodes(params.sector_size)
                   proofs == SynthProofsRead(file', nodes, params.num_layers,
                                             Range(0, DEFAULT_SYNTH_CHALLENGE_COUNT))
               IN  /\ reads' = proofs.touched
                   /\ IF proofs.ok
                      THEN /\ output' = <<CountOutput(UniqueNodes(proofs.val),
                                                       ProofSize(nodes, params.num_layers))>>
                           /\ printed' = TRUE
                           /\ End("Ok")
                      ELSE /\ End("Err: failed to read synthetic proofs: " \o proofs.err)
                           /\ UNCHANGED <<output, printed>>
    /\ UNCHANGED <<prog, params, sector_nodes, k, derive_calls, acc, snarkVars, written>>
    /\ UNCHANGED <<partition_indexes, porep_minimum, sideVars>>

(***************************************************************************)
(* merkle-proofs.rs: merkle_proofs and main.                               *)
(***************************************************************************)
\* prove_all_partitions with a seed (storage-proofs-porep), modelled from
\* the specification, section 4.1: partition k proves the challenges of
\* the interactive derivation for partition k.
ProveAllPartitions(nodes, num_layers, replica_id, comm_r, seed, per_partition, num_partitions) ==
    LET Challenges(p) == Derive("interactive", nodes, replica_id, comm_r, seed, p, per_partition)
    IN  IF num_partitions > 0 /\ ~Challenges(0).ok
        THEN [ok |-> FALSE, val |-> <<>>]
        ELSE [ok |-> TRUE,
              val |-> [p \in 1..num_partitions |->
                         RecordsOf(nodes, num_layers, Challenges(p - 1).val)]]

\* cli::parse_stdin (line 182).  The number of challenges of a partition
\* is the one PoRepConfig::new_groth16 has for the sector size (line 129).
\* The proofs are those of one replica, of the most layers, for any seed.
MerkleParse ==
    /\ prog = "none"
    /\ \E size \in StoreSectorSizes, seed \in Ids,
          n \in 0..MaxSnarkPartitions, c \in 1..MaxPerPartition :
          params' = [NoParams EXCEPT !.sector_size = size,
                                     !.num_layers = MaxLayers,
                                     !.replica_id = MaxId,
                                     !.seed = seed,
                                     !.num_partitions = n,
                                     !.num_challenges_per_partition = c,
                                     !.scheme = "interactive"]
    /\ prog' = "merkle"
    /\ pc' = "prove"
    /\ UNCHANGED <<sector_nodes, k, derive_calls, acc, result, printed, output,
                   snarkVars, storeVars>>
    /\ UNCHANGED <<partition_indexes, porep_minimum, sideVars>>

\* Lines 185-199 and 113-177: with_shape!, the trees are restored, the
\* proofs of every partition are generated and each partition is
\* serialized on its own.  tau.comm_r is [1u8; 32] (line 135).
MerkleProve ==
    /\ prog = "merkle"
    /\ pc = "prove"
    /\ IF ~WithShape(params.sector_size)
       THEN /\ End("panic: unsupported sector size")
            /\ UNCHANGED <<sector_nodes, acc, written>>
       ELSE \E restored \in BOOLEAN :
            IF ~restored
            THEN /\ End("panic: failed to restore contents of t_aux")
                 /\ UNCHANGED <<sector_nodes, acc, written>>
            ELSE LET nodes == SectorNodes(params.sector_size)
                     all_partition_proofs ==
                         ProveAllPartitions(nodes, params.num_layers, params.replica_id, 1,
                                            params.seed, params.num_challenges_per_partition,
                                            params.num_partitions)
                 IN  /\ sector_nodes' = nodes
                     /\ IF ~all_partition_proofs.ok
                        THEN /\ End("panic: failed to generate partition proofs")
                             /\ UNCHANGED <<acc, written>>
                        ELSE /\ written' = all_partition_proofs.val
                             /\ acc' = [p \in 1..Len(all_partition_proofs.val) |->
                                          SynthProofsWrite(all_partition_proofs.val[p])]
                             /\ pc' = "write"
                             /\ UNCHANGED result
    /\ UNCHANGED <<prog, params, k, derive_calls, printed, output, snarkVars, file, reads>>
    /\ UNCHANGED <<partition_indexes, porep_minimum, sideVars>>

\* Mutant of BundleBytes: each partition is followed by an end marker.
BundleBytesMutantDelimited(proofs) ==
    Flatten([p \in 1..Len(proofs) |-> proofs[p] \o <<0>>])

\* Lines 203-204: `proofs.into_iter().flatten().collect()`.
BundleBytes(proofs) == Flatten(proofs)

\* Lines 201-209: the partitions are written sequentially to the output
\* file and the output is printed.
MerkleWrite ==
    /\ prog = "merkle"
    /\ pc = "write"
    /\ output' = BundleBytes(acc)
    /\ printed' = TRUE
    /\ End("Ok")
    /\ UNCHANGED <<prog, params, sector_nodes, k, derive_calls, acc, snarkVars, storeVars>>
    /\ UNCHANGED <<partition_indexes, porep_minimum, sideVars>>

(***************************************************************************)
(* snark-proof.rs: snark_proof and main.                                   *)
(***************************************************************************)
\* Mutant of ChunksExact: slice::windows, the overlapping runs of `size`.
ChunksExactMutantWindows(s, size) ==
    [i \in 1..(IF Len(s) >= size THEN Len(s) - size + 1 ELSE 0) |->
        SubSeq(s, i, i + size - 1)]

\* slice::chunks_exact(size), size > 0: the full chunks, the rest dropped.
ChunksExact(s, size) ==
    [i \in 1..(Len(s) \div size) |-> SubSeq(s, (i - 1) * size + 1, i * size)]

\* Mutant of Chunks: chunks_exact written for chunks, the rest is dropped.
ChunksMutantDropsRemainder(s, size) ==
    [i \in 1..(Len(s) \div size) |-> SubSeq(s, (i - 1) * size + 1, i * size)]

\* slice::chunks(size), size > 0: the last chunk may be shorter.
Chunks(s, size) ==
    [i \in 1..CeilDiv(Len(s), size) |->
        SubSeq(s, (i - 1) * size + 1, Min(i * size, Len(s)))]

\* StackedCircuit::new over the vanilla proofs of one partition (the
\* commitments are the same for all partitions).
StackedCircuit(vanilla_proof) == [proofs |-> vanilla_proof]

\* The proving capability on success: one Groth16 proof per circuit, in the
\* order of the circuits.
CreateProofBatch(circuits_chunk) ==
    [i \in 1..Len(circuits_chunk) |-> [circuit |-> circuits_chunk[i].proofs]]

\* groth16::Proof::write: the encoding of one proof, one frame per proof.
ProofWrite(proof) == <<proof>>

\* groth16::Proof::read: decodes one frame; anything else is an error.
ProofRead(bytes) ==
    IF Len(bytes) = 1
    THEN [ok |-> TRUE, val |-> bytes[1]]
    ELSE [ok |-> FALSE, val |-> [circuit |-> <<>>]]

\* proofs_to_bytes: the encodings of the proofs, concatenated in order.
ProofsToBytes(proofs) == Flatten([i \in 1..Len(proofs) |-> ProofWrite(proofs[i])])

\* The parameters a snark-proof run is given for a bundle of `partitions`
\* partitions of `per_partition` records: the bundle's own, one partition
\* too many, or no challenges at all.
SnarkShapes(partitions, per_partition) ==
    {<<partitions, per_partition>>, <<partitions + 1, per_partition>>, <<partitions, 0>>}

\* cli::parse_stdin (line 235).  The proofs file is the bundle a finished
\* merkle-proofs run left; either the parameters are not the bundle's or
\* the file is not the one written, not both.
SnarkParse ==
    /\ prog = "merkle"
    /\ pc = "done"
    /\ result = "Ok"
    /\ \E shape \in SnarkShapes(params.num_partitions, params.num_challenges_per_partition),
          found \in FilesAsFound(output) :
          /\ found = output
               \/ shape = <<params.num_partitions, params.num_challenges_per_partition>>
          /\ params' = [params EXCEPT !.num_partitions = shape[1],
                                      !.num_challenges_per_partition = shape[2],
                                      !.scheme = "snark"]
          /\ file' = found
    /\ prog' = "snark"
    /\ pc' = "read"
    /\ result' = ""
    /\ printed' = FALSE
    /\ output' = <<>>
    /\ acc' = <<>>
    /\ UNCHANGED <<sector_nodes, k, derive_calls, snarkVars, reads, written>>
    /\ UNCHANGED <<partition_indexes, porep_minimum, sideVars>>

\* cli::parse_stdin (line 235).  The proofs file is the bundle a finished
\* extraction left: one partition.
SnarkParseExtracted ==
    /\ prog = "extract"
    /\ pc = "done"
    /\ result = "Ok"
    /\ params' = [params EXCEPT !.num_partitions = 1,
                                !.num_challenges_per_partition = params.num_challenges,
                                !.scheme = "snark"]
    /\ file' = output
    /\ prog' = "snark"
    /\ pc' = "read"
    /\ result' = ""
    /\ printed' = FALSE
    /\ output' = <<>>
    /\ acc' = <<>>
    /\ reads' = {}
    /\ UNCHANGED <<sector_nodes, k, derive_calls, snarkVars, written>>
    /\ UNCHANGED <<partition_indexes, porep_minimum, sideVars>>

\* Lines 155-197: the vanilla proofs are read, organized in partitions and
\* turned into circuits.
SnarkCircuits ==
    /\ prog = "snark"
    /\ pc = "read"
    /\ file' = FileOpen(file)
    /\ sector_nodes' = SectorNodes(params.sector_size)
    /\ LET num_challenges == params.num_challenges_per_partition * params.num_partitions
           vanilla_proofs == SynthProofsRead(file', sector_nodes', params.num_layers,
                                             Range(0, num_challenges))
       IN  /\ reads' = vanilla_proofs.touched
           /\ IF ~vanilla_proofs.ok
              THEN /\ End("Err: failed to read porep proofs: " \o vanilla_proofs.err)
                   /\ UNCHANGED circuits
              ELSE IF params.num_challenges_per_partition = 0
              THEN /\ End("panic: chunk size must be non-zero")
                   /\ UNCHANGED circuits
              ELSE /\ circuits' =
                        LET vanilla_proofs_partitions ==
                                ChunksExact(vanilla_proofs.val,
                                            params.num_challenges_per_partition)
                        IN  [i \in 1..Len(vanilla_proofs_partitions) |->
                                StackedCircuit(vanilla_proofs_partitions[i])]
                   /\ pc' = "params"
                   /\ UNCHANGED result
    /\ UNCHANGED <<prog, params, k, derive_calls, acc, printed, output,
                   prove_calls, inflight, failed, written>>
    /\ UNCHANGED <<partition_indexes, porep_minimum, sideVars>>

\* Line 199: parameter_cache::read_cached_params, which may fail.
SnarkParams ==
    /\ prog = "snark"
    /\ pc = "params"
    /\ \E ok \in BOOLEAN :
          IF ok
          THEN pc' = "batches" /\ UNCHANGED result
          ELSE End("Err: read_cached_params")
    /\ UNCHANGED <<prog, params, sector_nodes, k, derive_calls, acc, printed, output,
                   snarkVars>>
    /\ UNCHANGED storeVars
    /\ UNCHANGED <<partition_indexes, porep_minimum, sideVars>>

\* Mutant of SnarkMaySubmit: the next batch is submitted while the last
\* one is still being proved.
SnarkMaySubmitMutantEager == pc \in {"batches", "proving"}

\* The batch iterator is asked for its next element only between two
\* proving calls: the closure of flat_map runs to its end before the
\* chunks iterator is advanced.
SnarkMaySubmit == pc = "batches"

\* Lines 204-211: the next chunk of circuits is handed to the prover.
SnarkSubmit ==
    /\ prog = "snark"
    /\ SnarkMaySubmit
    /\ Len(prove_calls) < Len(Chunks(circuits, GROTH16_BATCH_SIZE))
    /\ prove_calls' = Append(prove_calls,
                             Chunks(circuits, GROTH16_BATCH_SIZE)[Len(prove_calls) + 1])
    /\ inflight' = inflight \cup {Len(prove_calls)}
    /\ pc' = "proving"
    /\ UNCHANGED <<prog, params, sector_nodes, k, derive_calls, acc, result, printed,
                   output, circuits, failed>>
    /\ UNCHANGED storeVars
    /\ UNCHANGED <<partition_indexes, porep_minimum, sideVars>>

\* What flat_map yields for the result of one proving call: the item of
\* Result's iterator, which is the batch's proofs for Ok and nothing for Err.
FlatMapItems(ok, proofs) == IF ok THEN <<proofs>> ELSE <<>>

\* Lines 207-222: the proving call returns; its proofs are flattened and
\* each is written and read back before the next chunk is asked for.
SnarkProveReturn ==
    /\ prog = "snark"
    /\ pc = "proving"
    /\ \E j \in inflight, ok \in BOOLEAN :
          LET groth_proofs == Flatten(FlatMapItems(ok, CreateProofBatch(prove_calls[j + 1])))
              reread == [i \in 1..Len(groth_proofs) |->
                            ProofRead(ProofWrite(groth_proofs[i]))]
          IN  /\ inflight' = inflight \ {j}
              /\ failed' = IF ok THEN failed ELSE failed \cup {j}
              /\ k' = k + 1
              /\ IF \E i \in 1..Len(reread) : ~reread[i].ok
                 THEN /\ End("Err: proof read")
                      /\ UNCHANGED acc
                 ELSE /\ acc' = acc \o [i \in 1..Len(reread) |-> reread[i].val]
                      /\ pc' = "batches"
                      /\ UNCHANGED result
    /\ UNCHANGED <<prog, params, sector_nodes, derive_calls, printed, output,
                   circuits, prove_calls>>
    /\ UNCHANGED storeVars
    /\ UNCHANGED <<partition_indexes, porep_minimum, sideVars>>

\* Lines 222-225 and main's lines 252-262: all chunks are consumed, the
\* proofs are serialized, returned and written to the output file.
SnarkFinish ==
    /\ prog = "snark"
    /\ pc = "batches"
    /\ Len(prove_calls) = Len(Chunks(circuits, GROTH16_BATCH_SIZE))
    /\ output' = ProofsToBytes(acc)
    /\ printed' = TRUE
    /\ End("Ok")
    /\ UNCHANGED <<prog, params, sector_nodes, k, derive_calls, acc, snarkVars>>
    /\ UNCHANGED storeVars
    /\ UNCHANGED <<partition_indexes, porep_minimum, sideVars>>

Next ==
    \/ ChallengesParse
    \/ ChallengesAssert
    \/ ChallengesDerive
    \/ ChallengesPrint
    \/ SynthParse
    \/ SynthDerive
    \/ BenchIter
    \/ DefaultParse
    \/ DefaultValues
    \/ GenerateParse
    \/ GenerateProve
    \/ ExtractParse
    \/ ExtractDerive
    \/ ExtractRead
    \/ CountParse
    \/ CountRun
    \/ MerkleParse
    \/ MerkleProve
    \/ MerkleWrite
    \/ SnarkParse
    \/ SnarkParseExtracted
    \/ SnarkCircuits
    \/ SnarkParams
    \/ SnarkSubmit
    \/ SnarkProveReturn
    \/ SnarkFinish

Spec == Init /\ [][Next]_vars

(***************************************************************************)
(* merkle-proofs-synth-count.rs over any list of proofs: what the tool     *)
(* computes and prints once SynthProofs::read has returned `proofs`.       *)
(***************************************************************************)
RECURSIVE SeqsUpTo(_, _)
\* The sequences of at most n elements of S.
SeqsUpTo(S, n) ==
    IF n = 0 THEN {<<>>}
    ELSE SeqsUpTo(S, n - 1)
           \cup {Append(s, x) : s \in {t \in SeqsUpTo(S, n - 1) : Len(t) = n - 1}, x \in S}

\* The proofs read: any proofs of one sector, in any order, with repeats.
ProofLists(nodes, num_layers) ==
    SeqsUpTo({ProofRecord(nodes, num_layers, c) : c \in 0..(nodes - 1)}, MaxRecords)

CountInit ==
    /\ prog = "count"
    /\ pc = "counting"
    /\ \E num_layers \in Layers :
          /\ params = [NoParams EXCEPT !.sector_size = NODE_SIZE * (2 ^ MaxHeight),
                                       !.num_layers = num_layers,
                                       !.scheme = "count"]
          /\ acc \in ProofLists(2 ^ MaxHeight, num_layers)
    /\ sector_nodes = 2 ^ MaxHeight
    /\ k = 0
    /\ derive_calls = 0
    /\ result = ""
    /\ printed = FALSE
    /\ output = <<>>
    /\ circuits = <<>>
    /\ prove_calls = <<>>
    /\ inflight = {}
    /\ failed = {}
    /\ file = <<>>
    /\ reads = {}
    /\ written = <<>>
    /\ partition_indexes = <<>>
    /\ porep_minimum = 0
    /\ TrackerNew
    /\ NoCircuit

\* Lines 54 and 67-89: the nodes of the proofs are counted, the record
\* size is computed and the output is printed.
CountProofs ==
    /\ prog = "count"
    /\ pc = "counting"
    /\ output' = <<CountOutput(UniqueNodes(acc),
                               ProofSize(SectorNodes(params.sector_size), params.num_layers))>>
    /\ printed' = TRUE
    /\ End("Ok")
    /\ UNCHANGED <<prog, params, sector_nodes, k, derive_calls, acc, snarkVars, storeVars>>
    /\ UNCHANGED <<partition_indexes, porep_minimum, sideVars>>

NextCount == CountProofs

SpecCount == CountInit /\ [][NextCount]_vars

(***************************************************************************)
(* snark-proof.rs: StdoutTracker, the tracker of the global allocator.     *)
(* Any thread of the process allocates and frees; each allocation calls    *)
(* allocated() on the allocating thread, each release of a tracked object  *)
(* calls deallocated().  The three fields are behind three mutexes, each   *)
(* locked for one statement.                                               *)
(***************************************************************************)
\* Line 36: 5 * 1024 * 1024.
TRACKER_THRESHOLD == 5242880

\* Line 77: the check runs when the counter is a multiple of this.
CHECK_PERIOD == 100000

\* Bound: the calls of allocated() of a run.
MaxEvents == 3

\* The wrapped sizes of the objects allocated: a small object and one
\* larger than the threshold.
ObjectSizes == {1, TRACKER_THRESHOLD + 1}

RECURSIVE SumSeq(_)
SumSeq(sizes) == IF sizes = <<>> THEN 0 ELSE Head(sizes) + SumSeq(Tail(sizes))

\* The sequence without its i-th element.
RemoveAt(sizes, i) == SubSeq(sizes, 1, i - 1) \o SubSeq(sizes, i + 1, Len(sizes))

\* The process after enable_tracking (lines 231-233), at its start or
\* shortly before the counter reaches CHECK_PERIOD: nothing was printed
\* yet, and total is the sum of the tracked objects still allocated.
TrackerInit ==
    /\ NoTool
    /\ NoCircuit
    /\ \E c \in {0, CHECK_PERIOD - 2, CHECK_PERIOD - 1} :
          /\ tracker_counter = c
          /\ live \in IF c = 0 THEN {<<>>}
                      ELSE {<<>>} \cup {<<size>> : size \in ObjectSizes}
    /\ total = SumSeq(live)
    /\ prev_printed = 0
    /\ tpc = [t \in Threads |-> "idle"]
    /\ tlocal = [t \in Threads |-> NoLocals]
    /\ checks = <<>>
    /\ skipped = {}
    /\ events = 0
    /\ subtractions = {}
    /\ tracker_result = ""

\* What the tracker actions leave alone.
toolVars == <<prog, pc, params, sector_nodes, k, derive_calls, acc, result, printed,
              output, snarkVars, storeVars, partition_indexes, porep_minimum, xorVars>>

\* allocated() returns to the allocator, which hands the object out.
AllocatedReturn(t) ==
    /\ tpc' = [tpc EXCEPT ![t] = "idle"]
    /\ tlocal' = [tlocal EXCEPT ![t] = NoLocals]
    /\ live' = Append(live, tlocal[t].wrapped_size)

\* Line 73: `counter += 1`, under the counter lock.
AllocatedCount ==
    /\ tracker_result = ""
    /\ events < MaxEvents
    /\ \E t \in Threads, wrapped_size \in ObjectSizes :
          /\ tpc[t] = "idle"
          /\ tracker_counter' = tracker_counter + 1
          /\ tlocal' = [tlocal EXCEPT ![t] = [NoLocals EXCEPT !.wrapped_size = wrapped_size,
                                                              !.reached = tracker_counter + 1]]
          /\ tpc' = [tpc EXCEPT ![t] = "add"]
    /\ events' = events + 1
    /\ UNCHANGED <<total, prev_printed, live, checks, skipped, subtractions, tracker_result>>
    /\ UNCHANGED toolVars

\* Line 74: `total += wrapped_size`, under the total lock.
AllocatedAdd ==
    /\ tracker_result = ""
    /\ \E t \in Threads :
          /\ tpc[t] = "add"
          /\ total' = total + tlocal[t].wrapped_size
          /\ tpc' = [tpc EXCEPT ![t] = "load"]
    /\ UNCHANGED <<tracker_counter, prev_printed, live, tlocal, checks, skipped, events,
                   subtractions, tracker_result>>
    /\ UNCHANGED toolVars

\* Line 76: `let total = *self.total.lock().unwrap()`.
AllocatedLoadTotal ==
    /\ tracker_result = ""
    /\ \E t \in Threads :
          /\ tpc[t] = "load"
          /\ tlocal' = [tlocal EXCEPT ![t].total = total]
          /\ tpc' = [tpc EXCEPT ![t] = "test"]
    /\ UNCHANGED <<tracker_counter, total, prev_printed, live, checks, skipped, events,
                   subtractions, tracker_result>>
    /\ UNCHANGED toolVars

\* Line 77: the counter is locked and read again.
CounterRead(t) == tracker_counter

\* Line 77: `if counter % 100000 == 0`: the block of the memory-change
\* check is entered, or allocated() returns.
AllocatedTest ==
    /\ tracker_result = ""
    /\ \E t \in Threads :
          /\ tpc[t] = "test"
          /\ IF CounterRead(t) % CHECK_PERIOD = 0
             THEN /\ checks' = Append(checks, [thread |-> t, reached |-> tlocal[t].reached,
                                               observed |-> CounterRead(t)])
                  /\ tpc' = [tpc EXCEPT ![t] = "prev"]
                  /\ UNCHANGED <<tlocal, live, skipped>>
             ELSE /\ skipped' = IF tlocal[t].reached % CHECK_PERIOD = 0
                                THEN skipped \cup {tlocal[t].reached}
                                ELSE skipped
                  /\ AllocatedReturn(t)
                  /\ UNCHANGED checks
    /\ UNCHANGED <<tracker_counter, total, prev_printed, events, subtractions, tracker_result>>
    /\ UNCHANGED toolVars

\* Line 78: `let prev_printed = *self.prev_printed.lock().unwrap()`.
AllocatedLoadPrev ==
    /\ tracker_result = ""
    /\ \E t \in Threads :
          /\ tpc[t] = "prev"
          /\ tlocal' = [tlocal EXCEPT ![t].prev_printed = prev_printed]
          /\ tpc' = [tpc EXCEPT ![t] = "compare"]
    /\ UNCHANGED <<tracker_counter, total, prev_printed, live, checks, skipped, events,
                   subtractions, tracker_result>>
    /\ UNCHANGED toolVars

\* Line 79: `prev_printed < total - TRACKER_THRESHOLD || prev_printed >
\* total + TRACKER_THRESHOLD`.  `wrapped` says that the subtraction
\* underflowed and wrapped: the difference is then 2^64 - (threshold -
\* total), above every total the tracker has held.
Changed(prev, now, wrapped) ==
    \/ IF wrapped THEN TRUE ELSE prev < now - TRACKER_THRESHOLD
    \/ prev > now + TRACKER_THRESHOLD

\* Lines 79-83: the subtraction and the comparison; a change of more than
\* the threshold is printed and remembered.  A subtraction that underflows
\* panics where overflow checks are compiled in and wraps where they are
\* not.
AllocatedCompare ==
    /\ tracker_result = ""
    /\ \E t \in Threads, checked \in BOOLEAN :
          /\ tpc[t] = "compare"
          /\ subtractions' = subtractions \cup
                {[in |-> "allocated", minuend |-> tlocal[t].total,
                  subtrahend |-> TRACKER_THRESHOLD]}
          /\ IF tlocal[t].total < TRACKER_THRESHOLD /\ checked
             THEN /\ tracker_result' = "panic: attempt to subtract with overflow"
                  /\ UNCHANGED <<prev_printed, tpc, tlocal, live>>
             ELSE /\ prev_printed' =
                        IF Changed(tlocal[t].prev_printed, tlocal[t].total,
                                   tlocal[t].total < TRACKER_THRESHOLD)
                        THEN tlocal[t].total
                        ELSE prev_printed
                  /\ AllocatedReturn(t)
                  /\ UNCHANGED tracker_result
    /\ UNCHANGED <<tracker_counter, total, checks, skipped, events>>
    /\ UNCHANGED toolVars

\* Line 103: `total -= wrapped_size`, for a tracked object that is freed.
\* A total below wrapped_size would be an underflow.
Deallocated ==
    /\ tracker_result = ""
    /\ \E t \in Threads, i \in 1..Len(live) :
          /\ tpc[t] = "idle"
          /\ subtractions' = subtractions \cup
                {[in |-> "deallocated", minuend |-> total, subtrahend |-> live[i]]}
          /\ total' = total - live[i]
          /\ live' = RemoveAt(live, i)
    /\ UNCHANGED <<tracker_counter, prev_printed, tpc, tlocal, checks, skipped, events,
                   tracker_result>>
    /\ UNCHANGED toolVars

NextTracker ==
    \/ AllocatedCount
    \/ AllocatedAdd
    \/ AllocatedLoadTotal
    \/ AllocatedTest
    \/ AllocatedLoadPrev
    \/ AllocatedCompare
    \/ Deallocated

SpecTracker == TrackerInit /\ [][NextTracker]_vars

(***************************************************************************)
(* tests/test_fp_xor.rs: BooleanXorChip and FpXorCircuit, checked by        *)
(* MockProver.  The field is a prime field whose elements have FieldBits    *)
(* bits, the modulus lying just above 2^(FieldBits - 1) as that of Fp does. *)
(***************************************************************************)
\* Bound: the bits of a field element.
FieldBits == 3

IsPrime(n) == n > 1 /\ \A d \in 2..(n - 1) : n % d # 0

\* The modulus of the field: the least prime above 2^(FieldBits - 1).
Modulus ==
    CHOOSE p \in (2 ^ (FieldBits - 1))..(2 ^ FieldBits) :
        /\ IsPrime(p)
        /\ p > 2 ^ (FieldBits - 1)
        /\ \A q \in (2 ^ (FieldBits - 1) + 1)..(p - 1) : ~IsPrime(q)

Field == 0..(Modulus - 1)

\* Negation in the field.
Neg(v) == (Modulus - v) % Modulus

\* halo2_gadgets::utilities::bool_check: value * (1 - value).
BoolCheck(v) == (v * (1 + Neg(v))) % Modulus

\* Mutant of XorGate: the product is not doubled.
XorGateMutantSingleProduct(a, b, out) ==
    /\ BoolCheck(a) = 0
    /\ BoolCheck(b) = 0
    /\ (a * b + Neg(a) + Neg(b) + out) % Modulus = 0

\* Lines 42-60, the gate "xor" on a row whose selector is on: every
\* polynomial is zero in the field.
XorGate(a, b, out) ==
    /\ BoolCheck(a) = 0
    /\ BoolCheck(b) = 0
    /\ ((a + a) * b + Neg(a) + Neg(b) + out) % Modulus = 0

\* to_le_bits / LeBitsChip: the bits of the canonical representation, the
\* least significant first.
ToLeBits(v) == [i \in 1..FieldBits |-> (v \div (2 ^ (i - 1))) % 2]

\* Lines 110-121: `Bit(bool::from(a) ^ bool::from(b))`, as a field element.
BitXor(a, b) == IF (a = 1) # (b = 1) THEN 1 ELSE 0

\* Lines 155-161, public_input: one field element, F::one() or F::zero(),
\* per bit of xor_result.
PublicInput(xor_result) ==
    [i \in 1..FieldBits |-> IF ToLeBits(xor_result)[i] = 1 THEN 1 ELSE 0]

\* Lines 272-369: a circuit with witnesses a and b, and the public input
\* of some field element c, as positive_test and negative_test build them.
FpXorInit ==
    /\ NoTool
    /\ TrackerNew
    /\ circuit_a \in Field
    /\ circuit_b \in Field
    /\ pub_inputs \in {PublicInput(c) : c \in Field}
    /\ xor_rows = <<>>
    /\ verdict = ""

\* What the circuit actions leave alone.
nonCircuitVars ==
    <<prog, pc, params, sector_nodes, k, derive_calls, acc, result, printed,
      output, snarkVars, storeVars, partition_indexes, porep_minimum, trackerVars>>

\* Lines 195-269, synthesize: a and b are decomposed into bits; row number
\* index of the xor region gets bit index of a, bit index of b and the
\* value xor() computes, with the selector on.
FpXorSynthesize ==
    /\ verdict = ""
    /\ xor_rows = <<>>
    /\ xor_rows' = [index \in 1..FieldBits |->
                       [a |-> ToLeBits(circuit_a)[index],
                        b |-> ToLeBits(circuit_b)[index],
                        xor_result |-> BitXor(ToLeBits(circuit_a)[index],
                                              ToLeBits(circuit_b)[index])]]
    /\ UNCHANGED <<circuit_a, circuit_b, pub_inputs, verdict>>
    /\ UNCHANGED nonCircuitVars

\* MockProver::verify (lines 283-288): Ok when the gate holds on every row
\* and every exposed cell equals the instance cell of its index (lines
\* 125-133, constrain_instance).
FpXorVerify ==
    /\ verdict = ""
    /\ xor_rows # <<>>
    /\ verdict' =
          IF \A index \in 1..Len(xor_rows) :
                /\ XorGate(xor_rows[index].a, xor_rows[index].b, xor_rows[index].xor_result)
                /\ xor_rows[index].xor_result = pub_inputs[index]
          THEN "Ok"
          ELSE "Err"
    /\ UNCHANGED <<circuit_a, circuit_b, pub_inputs, xor_rows>>
    /\ UNCHANGED nonCircuitVars

NextFpXor ==
    \/ FpXorSynthesize
    \/ FpXorVerify

SpecFpXor == FpXorInit /\ [][NextFpXor]_vars

(***************************************************************************)
(* The claims.                                                             *)
(***************************************************************************)
Snark == prog = "snark"
Challenges == prog = "challenges"

\* The batch a proof of the collected output came from: proofs are those of
\* consecutive partitions, GROTH16_BATCH_SIZE per batch.
BatchOfPartition(p) == p \div GROTH16_BATCH_SIZE

\* The vanilla proofs of partition p: the records of the proofs file at the
\* positions of the partition.
PartitionRecords(p) ==
    SynthProofsRead(file, sector_nodes, params.num_layers,
                    Range(p * params.num_challenges_per_partition,
                          (p + 1) * params.num_challenges_per_partition)).val

\* C1: in snark_proof, once the proving call of any batch has failed, the
\* call does not end with Ok, nothing is written, and no proof of a later
\* batch is collected.
C1_FailedBatchIsFatal ==
    (Snark /\ failed # {}) =>
        /\ result # "Ok"
        /\ ~printed
        /\ \A i \in 1..Len(acc) : \A j \in failed :
              \E p \in 0..(Len(circuits) - 1) :
                  /\ acc[i].circuit = PartitionRecords(p)
                  /\ BatchOfPartition(p) < j

\* C2: for n circuits and batch size B the prover is called with the
\* chunks of B circuits in order, the last call holding the 1..B circuits
\* that remain; no call is empty, no circuit is submitted twice or skipped,
\* and a call that ends with Ok has made exactly ceil(n/B) proving calls
\* (none for n = 0).
C2_BatchSizes ==
    Snark =>
        LET n == Len(circuits)
            B == GROTH16_BATCH_SIZE
            calls == CeilDiv(n, B)
            submitted == Flatten(prove_calls)
        IN  /\ Len(prove_calls) <= calls
            /\ \A i \in 1..Len(prove_calls) :
                  /\ i < calls => Len(prove_calls[i]) = B
                  /\ i = calls => /\ Len(prove_calls[i]) = n - B * (calls - 1)
                                  /\ Len(prove_calls[i]) \in 1..B
            /\ submitted = SubSeq(circuits, 1, Len(submitted))
            /\ (pc = "done" /\ result = "Ok") =>
                  /\ Len(prove_calls) = calls
                  /\ submitted = circuits
                  /\ n = 0 => prove_calls = <<>>

\* C2 witness: a finished call of three batches, the last of one circuit.
C2_Witness ==
    /\ Snark /\ pc = "done" /\ result = "Ok"
    /\ Len(prove_calls) = 3
    /\ Len(prove_calls[1]) = GROTH16_BATCH_SIZE
    /\ Len(prove_calls[3]) = 1

\* C3: the i-th proof of the written output was produced from the circuit
\* of partition i (counting from 0).
C3_PartitionOrder ==
    (Snark /\ printed) =>
        \A i \in 1..Len(output) : output[i].circuit = PartitionRecords(i - 1)

\* C4: batches are submitted one at a time in increasing batch index: at
\* most one batch is being proved, it is the last one submitted, all the
\* batches before it have returned, and it holds at most GROTH16_BATCH_SIZE
\* circuits.
C4_OneBatchAtATime ==
    Snark =>
        /\ Cardinality(inflight) <= 1
        /\ \A j \in inflight : j = Len(prove_calls) - 1
        /\ k + Cardinality(inflight) = Len(prove_calls)
        /\ \A i \in 1..Len(prove_calls) :
              /\ prove_calls[i] = Chunks(circuits, GROTH16_BATCH_SIZE)[i]
              /\ Len(prove_calls[i]) <= GROTH16_BATCH_SIZE

\* C4 witness: the second batch is being proved after the first returned.
C4_Witness ==
    /\ Snark /\ pc = "proving"
    /\ inflight = {1}
    /\ k = 1

\* C5: interactive challenge derivation with num_challenges not divisible
\* by num_partitions ends with the divisibility failure, before any derive
\* call and without any output.
C5_NotDivisibleFailsFirst ==
    (/\ Challenges
     /\ pc # "assert"
     /\ params.num_partitions # 0
     /\ params.num_challenges % params.num_partitions # 0) =>
        /\ pc = "done"
        /\ result = "panic: Number of challenges must be divisible by the number of partitions"
        /\ derive_calls = 0
        /\ acc = <<>>
        /\ ~printed

\* C5 witness: 4 challenges over 3 partitions were refused.
C5_Witness ==
    /\ Challenges /\ pc = "done"
    /\ params.num_challenges = 4 /\ params.num_partitions = 3
    /\ result # "Ok"

\* The ChallengeSet of partition p for the parameters of the run.
PartitionChallengeSet(p) ==
    Derive("interactive", params.sector_size \div NODE_SIZE, params.replica_id, 0,
           params.seed, p, params.num_challenges \div params.num_partitions).val

\* C6: the printed interactive challenges are num_challenges indices, the
\* concatenation of the ChallengeSets of the partitions 0..num_partitions-1
\* in that order.
C6_OutputIsPartitionConcatenation ==
    (Challenges /\ printed) =>
        /\ Len(output) = params.num_challenges
        /\ output = Flatten([p \in 1..params.num_partitions |->
                                PartitionChallengeSet(p - 1)])

\* The sector_nodes of the run: sector_size / NODE_SIZE.
RunSectorNodes ==
    IF prog = "bench" THEN BENCH_SECTOR_NODES ELSE params.sector_size \div NODE_SIZE

\* C8: every derived index lies in [0, sector_nodes), for every scheme and
\* every partition.
C8_IndicesInRange ==
    prog \in {"challenges", "synth", "bench"} =>
        \A i \in 1..Len(acc) : acc[i] >= 0 /\ acc[i] < RunSectorNodes

\* C8 witness: two partitions were derived and the largest index of the
\* sector was drawn.
C8_Witness ==
    /\ Challenges /\ printed
    /\ params.num_partitions = 2
    /\ Len(output) = 4
    /\ \E i \in 1..Len(output) : output[i] = RunSectorNodes - 1

\* C9: when sector_nodes does not exceed the challenges requested for a
\* partition, derivation fails with InsufficientNodeSpace at its first call
\* and no ChallengeSet is returned.
C9_InsufficientNodeSpace ==
    (/\ Challenges
     /\ pc # "assert"
     /\ params.num_partitions # 0
     /\ params.num_challenges % params.num_partitions = 0
     /\ RunSectorNodes <= params.num_challenges \div params.num_partitions) =>
        /\ acc = <<>>
        /\ ~printed
        /\ derive_calls > 0 =>
              /\ derive_calls = 1
              /\ pc = "done"
              /\ result = "panic: InsufficientNodeSpace"

\* C9 witness: 4 challenges for one partition of a sector of 4 nodes.
C9_Witness ==
    /\ Challenges /\ pc = "done"
    /\ params.num_challenges = 4 /\ params.num_partitions = 1
    /\ RunSectorNodes = 4
    /\ result = "panic: InsufficientNodeSpace"

\* C10: a sector size that is not a multiple of the node size is rejected
\* before any derivation and any output.
C10_NonMultipleSectorRejected ==
    (prog \in {"challenges", "synth"} /\ params.sector_size % NODE_SIZE # 0) =>
        /\ derive_calls = 0
        /\ ~printed

(***************************************************************************)
(* The synthetic proof store and its tools.                                *)
(***************************************************************************)
Extract == prog = "extract"
Count == prog = "count"
Generate == prog = "generate"
Merkle == prog = "merkle"

\* The size of one record of the run's sector, and the words of the
\* record slot at position p of a file.
RunProofSize == ProofSize(SectorNodes(params.sector_size), params.num_layers)

SlotAt(bytes, p) == SubSeq(bytes, p * RunProofSize + 1, p * RunProofSize + RunProofSize)

\* C11: a successful extraction outputs exactly num_challenges records, and
\* the j-th record of the bundle is the store record at the j-th derived
\* synthetic index: the bundle is in the order of the actual challenges,
\* also where the indexes decrease or repeat.
C11_ExtractInChallengeOrder ==
    (Extract /\ pc = "done" /\ result = "Ok") =>
        /\ Len(acc) = params.num_challenges
        /\ Len(output) = params.num_challenges * RunProofSize
        /\ \A j \in 1..params.num_challenges : SlotAt(output, j - 1) = SlotAt(file, acc[j])

C11_Witness ==
    /\ Extract /\ pc = "done" /\ result = "Ok"
    /\ params.num_challenges >= 3
    /\ \E j \in 1..(Len(acc) - 1) : acc[j + 1] < acc[j]

\* The actual challenges of the extraction's seed, and the superset of the
\* replica.
ActualChallenges ==
    Derive("interactive", SectorNodes(params.sector_size), params.replica_id,
           params.comm_r, params.seed, 0, params.num_challenges)

RunSuperset == SynthSuperset(SectorNodes(params.sector_size), params.replica_id, params.comm_r)

NotAllInSuperset ==
    /\ ActualChallenges.ok
    /\ \E i \in 1..Len(ActualChallenges.val) :
          \A j \in 1..Len(RunSuperset) : RunSuperset[j] # ActualChallenges.val[i]

\* C12: an extraction whose seed derives a challenge that is not in the
\* synthetic superset ends with ChallengeNotInSuperset after one derivation:
\* it never gets to read the store, writes no output and prints nothing.
C12_ChallengeNotInSuperset ==
    (Extract /\ pc # "derive" /\ NotAllInSuperset) =>
        /\ pc = "done"
        /\ result = "panic: ChallengeNotInSuperset"
        /\ derive_calls = 1
        /\ reads = {}
        /\ output = <<>>
        /\ ~printed

C12_Witness ==
    /\ Extract /\ pc = "done" /\ NotAllInSuperset
    /\ result = "panic: ChallengeNotInSuperset"
    /\ params.num_challenges >= 2
    /\ file # <<>>

\* The records of the file as they were serialized, in order.
WrittenRecords == Flatten(written)

CircuitRecords == Flatten([i \in 1..Len(circuits) |-> circuits[i].proofs])

\* C13: reading all n positions 0 .. n-1 of a file that holds the
\* serialization of n records returns exactly those records, in order:
\* the vanilla proofs snark_proof reads from an intact bundle are the
\* records merkle-proofs (or the extraction) wrote.
C13_StoreRoundTrip ==
    (/\ Snark /\ pc # "read"
     /\ file = SynthProofsWrite(WrittenRecords)
     /\ params.num_challenges_per_partition > 0
     /\ params.num_challenges_per_partition * params.num_partitions = Len(WrittenRecords)) =>
        /\ result # "Err: failed to read porep proofs: TruncatedStore"
        /\ result # "Err: failed to read porep proofs: DecodeError"
        /\ CircuitRecords = WrittenRecords

C13_Witness ==
    /\ Snark /\ pc = "params"
    /\ file = SynthProofsWrite(WrittenRecords)
    /\ params.num_partitions >= 2
    /\ params.num_challenges_per_partition >= 2
    /\ CircuitRecords = WrittenRecords
    /\ \E i, j \in 1..Len(WrittenRecords) : WrittenRecords[i] # WrittenRecords[j]

Finished == pc = "done" /\ result = "Ok"

\* C14: every serialized record of a (sector_nodes, num_layers) has the
\* size proof_size gives, so a file of n records has n * proof_size words:
\* the store holds the whole superset, the extraction's output
\* num_challenges records, and the output of merkle-proofs
\* num_partitions * challenges-per-partition records.
C14_SizingExact ==
    /\ ((Generate \/ Extract \/ Merkle) /\ Finished) =>
          /\ \A i \in 1..Len(WrittenRecords) :
                Len(EncodeRecord(WrittenRecords[i])) = RunProofSize
          /\ Len(output) = Len(WrittenRecords) * RunProofSize
    /\ (Generate /\ Finished) =>
          Len(output) = Min(sector_nodes, DEFAULT_SYNTH_CHALLENGE_COUNT) * RunProofSize
    /\ (Extract /\ Finished) =>
          Len(output) = params.num_challenges * RunProofSize
    /\ (Merkle /\ Finished) =>
          Len(output) = params.num_partitions * params.num_challenges_per_partition
                            * RunProofSize

C14_Witness ==
    /\ Merkle /\ Finished
    /\ params.num_partitions >= 3
    /\ params.num_challenges_per_partition >= 2
    /\ params.num_layers >= 2
    /\ Len(output) = params.num_partitions * params.num_challenges_per_partition
                        * RunProofSize

\* Position p lies, wholly or in part, beyond the end of the file.
Beyond(p) == p * RunProofSize + RunProofSize > Len(file)

\* The run has asked the file for a position beyond its end.
AskedBeyond ==
    \/ Extract /\ pc = "done" /\ \E i \in 1..Len(acc) : Beyond(acc[i])
    \/ Count /\ pc = "done" /\ Beyond(DEFAULT_SYNTH_CHALLENGE_COUNT - 1)
    \/ Snark /\ pc # "read"
         /\ params.num_challenges_per_partition * params.num_partitions > 0
         /\ Beyond(params.num_challenges_per_partition * params.num_partitions - 1)

\* Every whole record slot of the file decodes.
AllSlotsDecode ==
    \A p \in 0..((Len(file) \div RunProofSize) - 1) :
        DecodeRecord(SlotAt(file, p), SectorNodes(params.sector_size), params.num_layers).ok

ReadFailure(err) ==
    IF Snark THEN "Err: failed to read porep proofs: " \o err
    ELSE "Err: failed to read synthetic proofs: " \o err

\* C15: a read that asks for a position p with p * size + size beyond the
\* length of the file fails as a whole, with TruncatedStore (or with the
\* DecodeError of a damaged record met before it), and the tool that asked
\* (count, extract, snark-proof) ends with that error: it prints nothing
\* and produces no output, not even the records read before the failure.
C15_TruncatedStoreFails ==
    /\ (Extract \/ Count \/ Snark) =>
          \A p \in 0..((Len(file) \div RunProofSize) + 1) :
              LET one == SynthProofsRead(file, SectorNodes(params.sector_size),
                                         params.num_layers, <<p>>)
              IN  Beyond(p) => (~one.ok /\ one.err = "TruncatedStore" /\ one.val = <<>>)
    /\ AskedBeyond =>
          /\ pc = "done"
          /\ result \in {ReadFailure("TruncatedStore"), ReadFailure("DecodeError")}
          /\ AllSlotsDecode => result = ReadFailure("TruncatedStore")
          /\ output = <<>>
          /\ ~printed
          /\ circuits = <<>>

C15_Witness ==
    /\ Extract /\ AskedBeyond
    /\ result = ReadFailure("TruncatedStore")
    /\ \E i \in 1..Len(acc) : ~Beyond(acc[i])
    /\ reads # {}

Reader == Extract \/ Count \/ Snark

\* The positions the run asks its input file for.
Requested ==
    IF Extract THEN {acc[i] : i \in 1..Len(acc)}
    ELSE IF Count THEN 0..(DEFAULT_SYNTH_CHALLENGE_COUNT - 1)
    ELSE 0..(params.num_challenges_per_partition * params.num_partitions - 1)

\* C16: once written, the store is never modified: extract, count and
\* snark-proof open their input file read-only, read only positions they
\* were asked for, and leave its contents and length as they found them,
\* whether they end with Ok or with an error.  (The output of a tool goes
\* to another file, output_path.)
C16_StoreReadOnly ==
    [][(Reader /\ prog' = prog) => (file' = file /\ reads' \subseteq Requested')]_vars

C16_Witness ==
    /\ Extract /\ pc = "done"
    /\ result = ReadFailure("TruncatedStore")
    /\ reads # {}
    /\ file # <<>>

\* The proofs file is the whole bundle, and the run is given the bundle's
\* own number of partitions and of records per partition.
BundleAsWritten ==
    /\ file = SynthProofsWrite(WrittenRecords)
    /\ params.num_partitions = Len(written)
    /\ params.num_challenges_per_partition > 0
    /\ \A p \in 1..Len(written) : Len(written[p]) = params.num_challenges_per_partition

\* C17: the bundle merkle-proofs writes is the serialized records of
\* partition 0, then those of partition 1, and so on, with nothing in
\* between; reading positions 0 .. c*P - 1 of it and cutting the records
\* into chunks of c yields exactly P chunks, the k-th holding the records
\* of partition k.
C17_BundleLayout ==
    /\ (Merkle /\ Finished) =>
          /\ Len(written) = params.num_partitions
          /\ \A p \in 1..Len(written) :
                Len(written[p]) = params.num_challenges_per_partition
          /\ output = Flatten([p \in 1..Len(written) |-> SynthProofsWrite(written[p])])
    /\ (Snark /\ pc # "read" /\ BundleAsWritten) =>
          /\ Len(circuits) = params.num_partitions
          /\ \A p \in 1..Len(circuits) : circuits[p].proofs = written[p]

C17_Witness ==
    /\ Snark /\ pc = "params" /\ BundleAsWritten
    /\ params.num_partitions >= 3
    /\ params.num_challenges_per_partition >= 2
    /\ \E p, q \in 1..Len(written) : written[p] # written[q]
    /\ \A p \in 1..Len(circuits) : circuits[p].proofs = written[p]

\* The store of a replica: the serialized proofs of its synthetic superset,
\* which is a function of (sector_nodes, replica_id, comm_r) and of no seed.
\* The generation runs with tau.comm_r = [1u8; 32].
SeedlessStore ==
    SynthProofsWrite(RecordsOf(SectorNodes(params.sector_size), params.num_layers,
                               SynthSuperset(SectorNodes(params.sector_size),
                                             params.replica_id, 1)))

\* C18: the synthetic superset and the store are generated without any
\* seed: the store a generation leaves is the one of (sector_nodes,
\* num_layers, replica_id, comm_r) alone, it is the file every later
\* extraction finds whatever its seed, and the synthetic challenges of any
\* seed are entries of the seedless superset.
C18_StoreSeedIndependent ==
    /\ (Generate /\ Finished) => (output = SeedlessStore /\ params.seed = 0)
    /\ (Extract \/ Count) => file \in FilesAsFound(SeedlessStore)
    /\ (prog = "synth" /\ Finished) =>
          \A i \in 1..Len(acc) :
              \E j \in 1..Len(RunSuperset) : acc[i] = RunSuperset[j]

C18_Witness ==
    /\ Extract /\ Finished
    /\ params.seed # 0
    /\ params.num_challenges >= 2
    /\ file = SeedlessStore
    /\ sector_nodes > 2

Default == prog = "default"

\* The number of whole nodes of the sector.
WholeNodes(n) ==
    /\ n * NODE_SIZE <= params.sector_size
    /\ params.sector_size < (n + 1) * NODE_SIZE

\* C19: for every sector size it reports on, default-values reports as
\* num_synth_porep_challenges the smaller of the number of nodes of the
\* sector and DEFAULT_SYNTH_CHALLENGE_COUNT (2^18): never more than
\* sector_nodes, never more than 2^18, and one of the two.
C19_SynthChallengeCount ==
    (Default /\ Finished) =>
        LET reported == output[1].num_synth_porep_challenges
        IN  /\ WholeNodes(sector_nodes)
            /\ reported <= sector_nodes
            /\ reported <= 2 ^ 18
            /\ reported = sector_nodes \/ reported = 2 ^ 18

C19_Witness ==
    /\ Default /\ Finished
    /\ sector_nodes > DEFAULT_SYNTH_CHALLENGE_COUNT
    /\ output[1].num_synth_porep_challenges = DEFAULT_SYNTH_CHALLENGE_COUNT

\* No tree node is referenced by two of the proofs.
PairwiseDisjoint(records) ==
    \A i, j \in 1..Len(records) :
        i # j => NodesOf(records[i]) \cap NodesOf(records[j]) = {}

\* C20: for any list of records the count reports a total of node
\* references and a number of unique nodes with unique <= total, and
\* unique = total when no node is referenced by two of the records.
C20_UniqueAtMostTotal ==
    (Count /\ Finished) =>
        /\ output[1].num_total_nodes = Len(acc) * RunProofSize
        /\ output[1].num_unique_nodes <= output[1].num_total_nodes
        /\ PairwiseDisjoint(acc) =>
              output[1].num_unique_nodes = output[1].num_total_nodes

C20_Witness ==
    /\ Count /\ Finished
    /\ Len(acc) >= 2
    /\ PairwiseDisjoint(acc)
    /\ output[1].num_unique_nodes = output[1].num_total_nodes
    /\ params.num_layers >= 2

(***************************************************************************)
(* Challenge counts of default-values and partition indexes of challenges. *)
(***************************************************************************)
\* The default-values tool has printed its output.
DefaultPrinted == prog = "default" /\ pc = "done" /\ result = "Ok"

\* C22: the num_porep_challenges that default-values reports is the least
\* multiple of the reported num_porep_partitions that is not below the
\* minimum: it is divisible by the partition count, at least the minimum and
\* less than the minimum plus the partition count; so it passes the
\* divisibility assertion of the challenges tool.
C22_NextMultipleInRange ==
    DefaultPrinted =>
        LET r == output[1].num_porep_challenges
            m == output[1].num_porep_partitions
        IN  /\ m >= 1
            /\ r % m = 0
            /\ porep_minimum <= r
            /\ r < porep_minimum + m
            /\ ChallengesDivisible(r, m)

\* C22 witness: a minimum that is no multiple of the partition count was
\* rounded up.
C22_Witness ==
    /\ DefaultPrinted
    /\ output[1].num_porep_partitions = 3
    /\ porep_minimum = 4
    /\ output[1].num_porep_challenges = 6

\* C23: partition number j of the challenges tool is derived with the
\* partition index j, and no two partitions are derived with the same
\* partition-index argument, whatever num_partitions is.
C23_PartitionIndexesDistinct ==
    Challenges =>
        /\ \A j \in 1..Len(partition_indexes) : partition_indexes[j] = j - 1
        /\ \A i, j \in 1..Len(partition_indexes) :
              i # j => partition_indexes[i] # partition_indexes[j]

\* The vanilla proofs a snark-proof run reads: the records at the positions
\* 0 .. num_challenges_per_partition * num_partitions - 1 of the file.
VanillaProofsRead ==
    SynthProofsRead(file, sector_nodes, params.num_layers,
                    Range(0, params.num_challenges_per_partition * params.num_partitions))

\* C24: a snark_proof call whose read, parameter load and proving calls all
\* succeed ends with Ok and exactly num_partitions proofs, every vanilla
\* proof read being in exactly one circuit; also for num_partitions = 0 and
\* for num_challenges_per_partition = 0, which neither crash nor drop a
\* proof.
C24_OneProofPerPartition ==
    (/\ Snark /\ pc = "done"
     /\ VanillaProofsRead.ok
     /\ result # "Err: read_cached_params"
     /\ failed = {}) =>
        /\ result = "Ok"
        /\ Len(output) = params.num_partitions
        /\ CircuitRecords = VanillaProofsRead.val

\* The number of records of the whole store of the run's sector.
RunSynthCount == Min(SectorNodes(params.sector_size), DEFAULT_SYNTH_CHALLENGE_COUNT)

\* C25: on the whole store a generation left, for a sector size with a
\* shape, the count tool ends with Ok after reading exactly the
\* min(sector_nodes, 2^18) records of the store, and reports that number as
\* num_challenges; also when the sector has fewer than 2^18 nodes.
C25_CountReadsWholeStore ==
    (/\ Count /\ pc = "done"
     /\ WithShape(params.sector_size)
     /\ file = SynthProofsWrite(WrittenRecords)) =>
        /\ result = "Ok"
        /\ reads = 0..(RunSynthCount - 1)
        /\ Len(output) = 1
        /\ output[1].num_challenges = RunSynthCount

\* C26: no unsigned subtraction of the tracker underflows: allocated()
\* subtracts TRACKER_THRESHOLD only from a total that is at least the
\* threshold, and deallocated() subtracts wrapped_size only from a total
\* that is at least wrapped_size.
C26_NoUnderflow ==
    \A s \in subtractions : s.minuend >= s.subtrahend

\* The subtractions of deallocated() alone.
DeallocatedNoUnderflow ==
    \A s \in subtractions : s.in = "deallocated" => s.minuend >= s.subtrahend

\* C27: whenever the counter reaches a multiple of CHECK_PERIOD, the
\* memory-change check runs exactly once, in the thread whose increment
\* reached the multiple: no thread that reached a multiple leaves without
\* the check, every check is made by the thread that reached the value it
\* observed, and no value is checked twice.
C27_CheckOncePerPeriod ==
    /\ skipped = {}
    /\ \A i \in 1..Len(checks) : checks[i].reached = checks[i].observed
    /\ \A i, j \in 1..Len(checks) :
          i # j => checks[i].observed # checks[j].observed

\* The bitwise XOR of the two witnesses, bit by bit.
WitnessXorBits ==
    [i \in 1..FieldBits |-> (ToLeBits(circuit_a)[i] + ToLeBits(circuit_b)[i]) % 2]

\* C21: the xor gate holds for field elements a, b, out exactly when a and
\* b are bits and out is a XOR b; the value xor() assigns satisfies the
\* gate on every row; and the circuit is accepted exactly when the public
\* input is the bitwise XOR of the two witnesses, so a public input that
\* differs from it in any bit is rejected.
C21_AcceptsExactlyXor ==
    /\ xor_rows # <<>> =>
          /\ \A a, b, out \in Field :
                XorGate(a, b, out) <=>
                    (a \in {0, 1} /\ b \in {0, 1} /\ out = (a + b) % 2)
          /\ \A i \in 1..Len(xor_rows) :
                XorGate(xor_rows[i].a, xor_rows[i].b, xor_rows[i].xor_result)
    /\ verdict # "" => (verdict = "Ok" <=> pub_inputs = WitnessXorBits)

\* C21 witness: two different non-zero witnesses and their XOR were
\* accepted.
C21_Witness ==
    /\ verdict = "Ok"
    /\ circuit_a = 3
    /\ circuit_b = 1
    /\ pub_inputs = PublicInput(2)

====
